---- MODULE Spec2Model ----
(***************************************************************************)
(* FeaturePipeline (src/feature-pipeline-demo.ipynb): a registry of        *)
(* Transformation units applied in order to a raw pandas table, with the   *)
(* accumulated feature table kept on the engine between calls.             *)
(*                                                                         *)
(* A pandas object is a record [kind, columns, data, index]: data is       *)
(* column-major, index is the sequence of row labels.  A cell or a label   *)
(* is a tagged value [t, n, s] so that integers, strings, dates and NaN    *)
(* can sit in one table.                                                   *)
(***************************************************************************)
EXTENDS Integers, Sequences, FiniteSets, TLC

VARIABLES
    transformations,  \* FeaturePipeline.transformations: Seq of units
    transformed_df,   \* FeaturePipeline.transformed_df: None or a table
    napply,           \* number of apply_transformations calls made so far
    last,             \* the latest apply_transformations call: inputs, outcome, trace
    prev              \* the call before it: its inputs and outcome

vars == <<transformations, transformed_df, napply, last, prev>>

----------------------------------------------------------------------------
(* Bounds of the exploration *)

MaxUnits == 2
MaxApply == 2
MaxExampleUnits == 2

----------------------------------------------------------------------------
(* Values *)

IntV(k) == [t |-> "int", n |-> k, s |-> ""]
StrV(x) == [t |-> "str", n |-> 0, s |-> x]
DateV(d) == [t |-> "date", n |-> d, s |-> ""]
NaN == [t |-> "nan", n |-> 0, s |-> ""]

Range(q) == {q[i] : i \in 1..Len(q)}

\* positions of q, in order, whose element satisfies Test
SelectPos(q, Test(_)) == LET F[i \in 0..Len(q)] == IF i = 0 THEN <<>> ELSE IF Test(i) THEN Append(F[i-1], i) ELSE F[i-1] IN F[Len(q)]

\* first position of x in q (0 when absent)
IndexOf(q, x) == IF \E i \in 1..Len(q) : q[i] = x THEN CHOOSE i \in 1..Len(q) : q[i] = x /\ \A j \in 1..(i-1) : q[j] # x ELSE 0

HasDuplicates(q) == \E i, j \in 1..Len(q) : i < j /\ q[i] = q[j]

\* elements of q without repetition, in order of first occurrence
Unique(q) == LET pos == SelectPos(q, LAMBDA i : \A j \in 1..(i-1) : q[j] # q[i]) IN [k \in 1..Len(pos) |-> q[pos[k]]]

RECURSIVE Flatten(_)
Flatten(qq) == IF qq = <<>> THEN <<>> ELSE Head(qq) \o Flatten(Tail(qq))

----------------------------------------------------------------------------
(* pandas objects *)

None == [kind |-> "None", columns |-> <<>>, data |-> <<>>, index |-> <<>>]
DataFrame(cols, dat, idx) == [kind |-> "DataFrame", columns |-> cols, data |-> dat, index |-> idx]
Series(nm, vals, idx) == [kind |-> "Series", columns |-> <<nm>>, data |-> <<vals>>, index |-> idx]
Scalar(v) == [kind |-> "Scalar", columns |-> <<>>, data |-> <<<<v>>>>, index |-> <<>>]

NRows(o) == Len(o.index)

RangeIndex(k) == [i \in 1..k |-> IntV(i - 1)]

\* rows of o at the given positions, in that order
TakeRows(o, pos) == [o EXCEPT !.data = [c \in 1..Len(o.data) |-> [k \in 1..Len(pos) |-> o.data[c][pos[k]]]], !.index = [k \in 1..Len(pos) |-> o.index[pos[k]]]]

\* columns of o at the given positions, in that order
TakeCols(o, pos) == [o EXCEPT !.columns = [k \in 1..Len(pos) |-> o.columns[pos[k]]], !.data = [k \in 1..Len(pos) |-> o.data[pos[k]]]]

\* o reindexed to the labels idx: a label o does not hold gives a NaN row
Reindex(o, idx) == [o EXCEPT !.index = idx, !.data = [c \in 1..Len(o.data) |-> [k \in 1..Len(idx) |-> IF IndexOf(o.index, idx[k]) = 0 THEN NaN ELSE o.data[c][IndexOf(o.index, idx[k])]]]]

\* pd.concat(objs, axis=1): an outer join on the row labels.  Objects whose
\* labels are all the same sequence are put side by side; otherwise the
\* labels are united in order of appearance and every object is reindexed,
\* which pandas refuses when an object's labels repeat.
LabelsAgree(objs) == \A i \in 1..Len(objs) : objs[i].index = objs[1].index

ConcatIndex(objs) == IF LabelsAgree(objs) THEN objs[1].index ELSE Unique(Flatten([i \in 1..Len(objs) |-> objs[i].index]))

concat(objs) ==
    IF objs = <<>> THEN [exc |-> "ValueError", val |-> None]
    ELSE IF ~LabelsAgree(objs) /\ \E i \in 1..Len(objs) : HasDuplicates(objs[i].index) THEN [exc |-> "InvalidIndexError", val |-> None]
    ELSE LET SideBySide(parts, idx) == [exc |-> "", val |-> DataFrame(Flatten([i \in 1..Len(parts) |-> parts[i].columns]), Flatten([i \in 1..Len(parts) |-> parts[i].data]), idx)]
             Join(idx) == SideBySide([i \in 1..Len(objs) |-> Reindex(objs[i], idx)], idx)
         IN Join(ConcatIndex(objs))

\* df.loc[:, ~df.columns.duplicated()].copy(): the first column of each name
DedupColumns(df) == TakeCols(df, SelectPos(df.columns, LAMBDA i : \A j \in 1..(i-1) : df.columns[j] # df.columns[i]))

\* df[c] for a name the table holds: a Series when one column has the name,
\* a DataFrame of all of them when several do
GetItem(df, c) ==
    LET At(pos) == IF Len(pos) = 1 THEN Series(c, df.data[pos[1]], df.index) ELSE TakeCols(df, pos)
    IN At(SelectPos(df.columns, LAMBDA i : df.columns[i] = c))

\* df[c] = vals: replaces the column of that name, or appends a new one
SetItem(df, c, vals) ==
    IF IndexOf(df.columns, c) = 0 THEN [df EXCEPT !.columns = Append(@, c), !.data = Append(@, vals)]
    ELSE [df EXCEPT !.data = [i \in 1..Len(df.data) |-> IF df.columns[i] = c THEN vals ELSE df.data[i]]]

\* del df[c]
DelItem(df, c) == TakeCols(df, SelectPos(df.columns, LAMBDA i : df.columns[i] # c))

\* "".join([v for v in x[index_cols]]) of row r
RECURSIVE JoinKey(_, _, _)
JoinKey(df, index_cols, r) == IF index_cols = <<>> THEN "" ELSE df.data[IndexOf(df.columns, Head(index_cols))][r].s \o JoinKey(df, Tail(index_cols), r)

\* str.join raises TypeError on an item that is no string
JoinRaises(df, index_cols) == \E k \in 1..Len(index_cols), r \in 1..NRows(df) : df.data[IndexOf(df.columns, index_cols[k])][r].t # "str"

\* df.drop_duplicates(['INDEX']): the first row of each INDEX value
DropDuplicates(df, c) == LET col == df.data[IndexOf(df.columns, c)] IN TakeRows(df, SelectPos(col, LAMBDA i : \A j \in 1..(i-1) : col[j] # col[i]))

\* The objects of lines 163-178: the caller's table, the table the method
\* works on, and which of the two the local name df refers to.
Objects(raw) == [caller |-> raw, work |-> None, df |-> "caller"]

\* a statement that changes the object df refers to where it is
InPlace(h, value) == [h EXCEPT ![h.df] = value]

\* variant of NewObject: the result is written into the object df refers to
NewObject_InPlace(h, value) == [h EXCEPT ![h.df] = value]

\* "df = <expression>": the name df is bound to a new object
NewObject(h, value) == [h EXCEPT !.work = value, !.df = "work"]

\* Lines 163-178 of apply_transformations: the working copy of the raw table
\* (df), the canonical row labels index_list of this call, and the caller's
\* table as the statements leave it (caller).
Prepare(raw, index_cols) ==
    LET Result(h, exc, index_list) == [exc |-> exc, df |-> h[h.df], index_list |-> index_list, caller |-> h.caller]
        \* lines 175-176: df.index = index_list; del df['INDEX']
        Relabel(h, index_list) == Result(InPlace(h, DelItem([h[h.df] EXCEPT !.index = index_list], "INDEX")), "", index_list)
        \* line 174
        Dropped(h) == Relabel(h, h[h.df].data[IndexOf(h[h.df].columns, "INDEX")])
        \* line 171: df = df.drop_duplicates(['INDEX'])
        Keyed(h) == Dropped(NewObject(h, DropDuplicates(h[h.df], "INDEX")))
        \* line 168: df['INDEX'] = ...; the right-hand side may raise
        Working(h) ==
            IF index_cols = <<>> THEN Result(h, "", h[h.df].index)
            ELSE IF \E k \in 1..Len(index_cols) : IndexOf(h[h.df].columns, index_cols[k]) = 0 THEN Result(h, "KeyError", <<>>)
            ELSE IF JoinRaises(h[h.df], index_cols) THEN Result(h, "TypeError", <<>>)
            ELSE Keyed(InPlace(h, SetItem(h[h.df], "INDEX", [r \in 1..NRows(h[h.df]) |-> StrV(JoinKey(h[h.df], index_cols, r))])))
        \* line 164: df = df.loc[:,~df.columns.duplicated()].copy()
        Copied(h) == Working(NewObject(h, DedupColumns(h[h.df])))
    IN Copied(Objects(raw))

----------------------------------------------------------------------------
(* The transform functions: the two of the demo and one opaque callable      *)
(* whose behaviour depends on its environment (mode)                         *)

Functions == {"transforms_above_threshold", "transforms_days_between", "opaque_f"}

Modes == {"ok", "raise", "short"}

\* the declared parameters of each function
Params(f) ==
    CASE f = "transforms_above_threshold" -> <<"ser1", "threshold">>
      [] f = "transforms_days_between" -> <<"ser1", "ser2">>
      [] OTHER -> <<"ser1">>

\* np.where(ser1 > threshold, 1, 0) with ser1's labels; comparing a string or
\* a date with a number raises TypeError, NaN compares false
transforms_above_threshold(ser1, threshold) ==
    IF ser1.kind # "Series" \/ threshold.kind # "Scalar" THEN [exc |-> "ValueError", val |-> None]
    ELSE IF \E r \in 1..NRows(ser1) : ser1.data[1][r].t \notin {threshold.data[1][1].t, "nan"} THEN [exc |-> "TypeError", val |-> None]
    ELSE [exc |-> "", val |-> Series("None", [r \in 1..NRows(ser1) |-> IF ser1.data[1][r].t # "nan" /\ ser1.data[1][r].n > threshold.data[1][1].n THEN IntV(1) ELSE IntV(0)], ser1.index)]

\* pd.to_datetime of one cell: the day number, or NaN for NaT; a small
\* integer is a count of nanoseconds since the epoch, day 0
ToDay(v) == IF v.t = "date" THEN IntV(v.n) ELSE IF v.t = "int" THEN IntV(0) ELSE NaN

\* variant of transforms_days_between: the difference is not clipped at 0
transforms_days_between_NoClip(ser1, ser2) ==
    IF ser1.kind # "Series" \/ ser2.kind # "Series" THEN [exc |-> "ValueError", val |-> None]
    ELSE [exc |-> "", val |-> Series("None", [r \in 1..NRows(ser1) |-> IF ToDay(ser1.data[1][r]).t = "nan" \/ ToDay(ser2.data[1][r]).t = "nan" THEN NaN
                                                                        ELSE IntV(ToDay(ser2.data[1][r]).n - ToDay(ser1.data[1][r]).n)], ser1.index)]

\* (s2 - s1).dt.days clipped below at 0, aligned on the row labels
transforms_days_between(ser1, ser2) ==
    IF ser1.kind # "Series" \/ ser2.kind # "Series" THEN [exc |-> "ValueError", val |-> None]
    ELSE IF \E r \in 1..NRows(ser1) : ser1.data[1][r].t = "str" THEN [exc |-> "ValueError", val |-> None]
    ELSE IF \E r \in 1..NRows(ser2) : ser2.data[1][r].t = "str" THEN [exc |-> "ValueError", val |-> None]
    ELSE IF ser1.index # ser2.index /\ (HasDuplicates(ser1.index) \/ HasDuplicates(ser2.index)) THEN [exc |-> "ValueError", val |-> None]
    ELSE LET days(d1, d2) == IF d1.t = "nan" \/ d2.t = "nan" THEN NaN
                             ELSE IF d2.n - d1.n < 0 THEN IntV(0)
                             ELSE IntV(d2.n - d1.n)
             Diff(s1, s2, idx) == [exc |-> "", val |-> Series("None", [r \in 1..Len(idx) |-> days(ToDay(s1[r]), ToDay(s2[r]))], idx)]
             Aligned(idx) == Diff(Reindex(ser1, idx).data[1], Reindex(ser2, idx).data[1], idx)
         IN Aligned(ConcatIndex(<<ser1, ser2>>))

\* an opaque callable of one column: returns it in reverse row order (with
\* its labels), or only its first row, or raises (a RuntimeError, or a
\* TypeError from an operation in its body), as its environment has it
opaque_f(ser1, m) ==
    IF m = "raise" THEN [exc |-> "RuntimeError", val |-> None]
    ELSE IF m = "type_error" THEN [exc |-> "TypeError", val |-> None]
    ELSE IF ser1.kind = "Scalar" THEN [exc |-> "TypeError", val |-> None]
    ELSE IF m = "short" THEN [exc |-> "", val |-> TakeRows(ser1, IF NRows(ser1) = 0 THEN <<>> ELSE <<1>>)]
    ELSE [exc |-> "", val |-> TakeRows(ser1, [k \in 1..NRows(ser1) |-> NRows(ser1) + 1 - k])]

\* the body of function f run on its bound parameters b (in declared order)
Body(f, b, m) ==
    CASE f = "transforms_above_threshold" -> transforms_above_threshold(b[1], b[2])
      [] f = "transforms_days_between" -> transforms_days_between(b[1], b[2])
      [] OTHER -> opaque_f(b[1], m)

\* position of key k in the ordered mapping args (0 when absent)
KeyPos(args, k) == IndexOf([i \in 1..Len(args) |-> args[i].k], k)

\* f(**args): binds by name; a name f does not declare, or a declared name
\* not supplied, is a TypeError raised before the body runs
CallKw(f, args, m) ==
    IF {args[i].k : i \in 1..Len(args)} # Range(Params(f)) THEN [exc |-> "TypeError", val |-> None, ncalls |-> 0]
    ELSE LET Called(r) == [exc |-> r.exc, val |-> r.val, ncalls |-> 1] IN Called(Body(f, [i \in 1..Len(Params(f)) |-> args[KeyPos(args, Params(f)[i])].v], m))

\* f(*list(args.values())): binds by position, in insertion order
CallPos(f, args, m) ==
    IF Len(args) # Len(Params(f)) THEN [exc |-> "TypeError", val |-> None, ncalls |-> 0]
    ELSE LET Called(r) == [exc |-> r.exc, val |-> r.val, ncalls |-> 1] IN Called(Body(f, [i \in 1..Len(args) |-> args[i].v], m))

\* lines 46-49: the named call, and on any TypeError the positional one
Invoke(f, args, m) ==
    LET Second(r1, r2) == [exc |-> r2.exc, val |-> r2.val, ncalls |-> r1.ncalls + r2.ncalls]
        First(r1) == IF r1.exc = "TypeError" THEN Second(r1, CallPos(f, args, m)) ELSE r1
    IN First(CallKw(f, args, m))

\* variant of Rename: the function's own column names are kept
Rename_Keep(name, tdf) == [exc |-> "", val |-> tdf]

\* lines 51-59: the fragment's columns named after the unit's name
Rename(name, tdf) ==
    IF name.k = "none" THEN [exc |-> "", val |-> tdf]
    ELSE IF tdf.kind = "DataFrame" /\ name.k = "list" THEN
        IF Len(name.v) # Len(tdf.columns) THEN [exc |-> "ValueError", val |-> None] ELSE [exc |-> "", val |-> [tdf EXCEPT !.columns = name.v]]
    ELSE IF tdf.kind = "DataFrame" THEN [exc |-> "", val |-> [tdf EXCEPT !.columns = [i \in 1..Len(tdf.columns) |-> name.v[1] \o "_" \o tdf.columns[i]]]]
    ELSE IF tdf.kind = "Series" THEN [exc |-> "", val |-> DataFrame(name.v, tdf.data, tdf.index)]
    ELSE [exc |-> "", val |-> tdf]

\* tdf.reset_index(drop=True)
reset_index(tdf) == [tdf EXCEPT !.index = RangeIndex(NRows(tdf))]

\* Transformation.apply: the fragment (val), the unit's applied flag after it,
\* the calls made of the function and what the function returned (out)
Transformation_apply(t, args, m) ==
    LET Renamed(r, rn) ==
            IF rn.exc # "" THEN [exc |-> rn.exc, val |-> None, applied |-> t.transformation_applied, ncalls |-> r.ncalls, out |-> r.val]
            ELSE IF rn.val.kind \notin {"DataFrame", "Series"} THEN [exc |-> "AttributeError", val |-> None, applied |-> t.transformation_applied, ncalls |-> r.ncalls, out |-> r.val]
            ELSE [exc |-> "", val |-> reset_index(rn.val), applied |-> TRUE, ncalls |-> r.ncalls, out |-> r.val]
        Invoked(r) ==
            IF r.exc # "" THEN [exc |-> r.exc, val |-> None, applied |-> t.transformation_applied, ncalls |-> r.ncalls, out |-> None]
            ELSE Renamed(r, Rename(t.name, r.val))
    IN Invoked(Invoke(t.transformation_f, args, m))

----------------------------------------------------------------------------
(* FeaturePipeline *)

\* variant of Transformation: the unit is constructed with its flag set
Transformation_Applied(on_col, f, name, args, transform_type) ==
    [on_col |-> on_col, transformation_f |-> f, name |-> name, transform_type |-> transform_type,
     transformation_args |-> args, transformation_applied |-> TRUE]

\* Transformation.__init__
Transformation(on_col, f, name, args, transform_type) ==
    [on_col |-> on_col, transformation_f |-> f, name |-> name, transform_type |-> transform_type,
     transformation_args |-> args, transformation_applied |-> FALSE]

\* lines 127-136: one declared input name resolved against the working raw
\* table first, then against the running feature table
Resolvable(c, df, tdf) == IndexOf(df.columns, c) # 0 \/ (tdf.kind # "None" /\ IndexOf(tdf.columns, c) # 0)

\* variant of Resolve: the accumulated table is looked up before the raw table
Resolve_FeaturesFirst(c, df, tdf) == GetItem(IF tdf.kind # "None" /\ IndexOf(tdf.columns, c) # 0 THEN tdf ELSE df, c)

Resolve(c, df, tdf) == GetItem(IF IndexOf(df.columns, c) # 0 THEN df ELSE tdf, c)

\* variant of Update: a key the mapping already holds keeps its value
Update_KeepResolved(args, more) == args \o [k \in 1..Len(SelectPos(more, LAMBDA j : KeyPos(args, more[j].k) = 0)) |-> more[SelectPos(more, LAMBDA j : KeyPos(args, more[j].k) = 0)[k]]]

\* args.update(t.transformation_args) on an insertion-ordered mapping
RECURSIVE Update(_, _)
Update(args, more) ==
    IF more = <<>> THEN args
    ELSE IF KeyPos(args, Head(more).k) = 0 THEN Update(Append(args, Head(more)), Tail(more))
    ELSE Update([args EXCEPT ![KeyPos(args, Head(more).k)] = Head(more)], Tail(more))

\* variant of Convention: a transform_type that is not 'dataframe' is taken
\* as 'series'
Convention_SeriesByDefault(transform_type) == IF transform_type = "dataframe" THEN "dataframe" ELSE "series"

\* lines 138-145: the branch the if/elif/else takes for a transform_type
Convention(transform_type) == IF transform_type = "series" THEN "series" ELSE IF transform_type = "dataframe" THEN "dataframe" ELSE "else"

\* FeaturePipeline.get_args
get_args(t, df, tdf) ==
    LET cols == t.on_col
        Updated(list_of_series, args) == [exc |-> "", msg |-> "", got |-> list_of_series, args |-> Update(args, t.transformation_args)]
        AsFrame(list_of_series, arg_df) ==
            IF arg_df.exc # "" THEN [exc |-> arg_df.exc, msg |-> "", got |-> list_of_series, args |-> <<>>]
            ELSE IF NRows(arg_df.val) # NRows(list_of_series[1]) THEN [exc |-> "AssertionError", msg |-> "", got |-> list_of_series, args |-> <<>>]
            ELSE Updated(list_of_series, <<[k |-> "df", v |-> arg_df.val]>>)
        Resolved(list_of_series) ==
            IF Convention(t.transform_type) = "series" THEN Updated(list_of_series, [i \in 1..Len(cols) |-> [k |-> "ser" \o ToString(i), v |-> list_of_series[i]]])
            ELSE IF Convention(t.transform_type) = "dataframe" THEN AsFrame(list_of_series, concat(list_of_series))
            ELSE [exc |-> "Exception", msg |-> "Unknwon transform type", got |-> list_of_series, args |-> <<>>]
        \* line 136: the loop of line 127 stops at the first name found nowhere
        NotFound(missing) == [exc |-> "Exception", msg |-> "Column " \o cols[missing[1]] \o " not found in input dataframes", got |-> <<>>, args |-> <<>>]
    IN IF \E i \in 1..Len(cols) : ~Resolvable(cols[i], df, tdf) THEN NotFound(SelectPos(cols, LAMBDA i : ~Resolvable(cols[i], df, tdf)))
       ELSE Resolved([i \in 1..Len(cols) |-> Resolve(cols[i], df, tdf)])

\* one entry of the event trace of a call
Event(ev, u, got, frag) == [ev |-> ev, u |-> u, got |-> got, frag |-> frag]

RECURSIVE Repeat(_, _)
Repeat(x, k) == IF k <= 0 THEN <<>> ELSE <<x>> \o Repeat(x, k - 1)

\* variant of SetApplied: the flag is set whatever became of the invocation
SetApplied_Always(units, i, b) == [units EXCEPT ![i].transformation_applied = TRUE]

\* line 63 inside t.apply: the flag of unit i after t.apply, b
SetApplied(units, i, b) == [units EXCEPT ![i].transformation_applied = b]

\* variant of ShouldSkip: no unit is ever skipped
ShouldSkip_Never(t, reapply_all) == FALSE

\* line 182: an applied unit is skipped unless reapply_all
ShouldSkip(t, reapply_all) == t.transformation_applied /\ ~reapply_all

\* variant of Running: every call starts from an empty running result
Running_Empty(self_tdf) == None

\* line 180, "None or self.transformed_df": the running result starts as the
\* engine's accumulated table
Running(self_tdf) == self_tdf

\* variant of Store: the running result is kept in the local only
Store_LocalOnly(st, tdf) == [st EXCEPT !.tdf = tdf]

\* lines 188/193 and 195: the running result, stored back on the engine
Store(st, tdf) == [st EXCEPT !.tdf = tdf, !.self_tdf = tdf]

\* lines 189/192, "tdf.index = index_list": labels assigned by position
SetIndex(tdf, index_list) == [tdf EXCEPT !.index = index_list]

\* lines 182-195: the loop body for unit i.  st carries the local
\* transformed_df (tdf), self.transformed_df (self_tdf), the units, the
\* exception that ended the call (exc, msg) and the statement that raised it
\* (stage), the trace, and per unit reached the operands of its get_args and
\* t.apply calls (log).
LoopBody(st, i, df, index_list, reapply_all, m) ==
    LET t == st.units[i]
        \* line 193 and 195: the fragment concatenated and the result stored
        Merged(s, frag, merged) ==
            IF merged.exc # "" THEN [s EXCEPT !.exc = merged.exc, !.failed = i, !.stage = "concat"]
            ELSE Store([s EXCEPT !.trace = Append(@, Event("merge", i, <<>>, frag))], merged.val)
        \* lines 189/192: the fragment relabelled
        Relabelled(s, frag) ==
            IF s.tdf.kind = "None" THEN Store([s EXCEPT !.trace = Append(@, Event("merge", i, <<>>, frag))], frag)
            ELSE Merged(s, frag, concat(<<s.tdf, frag>>))
        \* lines 188/191: t.apply(args) has run (s: the unit's flag and the calls made)
        Ran(s, r) ==
            IF r.exc # "" THEN [s EXCEPT !.exc = r.exc, !.failed = i, !.stage = "apply"]
            ELSE IF NRows(r.val) # Len(index_list) THEN [s EXCEPT !.exc = "ValueError", !.failed = i, !.stage = "index"]
            ELSE Relabelled(s, SetIndex(r.val, index_list))
        Applied(s, r) == Ran([s EXCEPT !.units = SetApplied(@, i, r.applied), !.trace = @ \o Repeat(Event("invoke", i, <<>>, None), r.ncalls),
                                       !.log = [@ EXCEPT ![Len(@)].out = r.out]], r)
        \* line 185: get_args has run
        Got(s, ga) ==
            IF ga.exc # "" THEN [s EXCEPT !.exc = ga.exc, !.msg = ga.msg, !.failed = i, !.stage = "get_args"]
            ELSE Applied(s, Transformation_apply(t, ga.args, m))
        Resolved(ga) == Got([st EXCEPT !.trace = Append(@, Event("resolve", i, ga.got, None)),
                                       !.log = Append(@, [u |-> i, tdf |-> st.tdf, args |-> ga.args, out |-> None])], ga)
    IN IF ShouldSkip(t, reapply_all) THEN [st EXCEPT !.trace = Append(@, Event("skip", i, <<>>, None))]
       ELSE Resolved(get_args(t, df, st.tdf))

\* variant of Loop: the units are visited from the last registered to the first
RECURSIVE Loop_Backwards(_, _, _, _, _, _)
Loop_Backwards(st, i, df, index_list, reapply_all, m) ==
    IF i > Len(st.units) \/ st.exc # "" THEN st
    ELSE Loop_Backwards(LoopBody(st, Len(st.units) + 1 - i, df, index_list, reapply_all, m), i + 1, df, index_list, reapply_all, m)

\* units i.. of the for loop of line 181; an exception ends the loop
RECURSIVE Loop(_, _, _, _, _, _)
Loop(st, i, df, index_list, reapply_all, m) ==
    IF i > Len(st.units) \/ st.exc # "" THEN st
    ELSE Loop(LoopBody(st, i, df, index_list, reapply_all, m), i + 1, df, index_list, reapply_all, m)

\* FeaturePipeline.apply_transformations on an engine (units, self_tdf):
\* the engine after the call, what the call raised (exc) or returned (ret)
apply_transformations(units, self_tdf, raw, index_cols, reapply_all, m) ==
    LET Outcome(st, p) ==
            [units |-> st.units, self_tdf |-> st.self_tdf, exc |-> st.exc, msg |-> st.msg, stage |-> st.stage, failed |-> st.failed,
             trace |-> st.trace, log |-> st.log, ret |-> IF st.exc = "" THEN st.tdf ELSE None, index_list |-> p.index_list,
             caller |-> p.caller]
        Prepared(p) ==
            Outcome(Loop([tdf |-> Running(self_tdf), self_tdf |-> self_tdf, units |-> units, exc |-> p.exc, msg |-> "",
                          stage |-> IF p.exc # "" THEN "prepare" ELSE "", failed |-> 0, trace |-> <<>>, log |-> <<>>],
                         1, p.df, p.index_list, reapply_all, m), p)
    IN Prepared(Prepare(raw, index_cols))

\* Python's == between two objects of classes that define no __eq__: identity
PyObj(cls, id) == [cls |-> cls, id |-> id]

PyEq(a, b) == a.cls = b.cls /\ a.id = b.id

\* line 96, "transformation_f in self.transformations": the list holds
\* Transformation objects and the operand is the function object
AlreadyAdded(f, units) == \E i \in 1..Len(units) : PyEq(PyObj("function", f), PyObj("Transformation", i))

\* lines 102-103: a single name becomes a one-element list
NormalizeOnCols(on_cols) == IF on_cols.k = "str" THEN <<on_cols.v>> ELSE on_cols.v

\* variant of add_transformation: the new unit is put before the others
add_transformation_Prepend(units, on_cols, f, args, name, transform_type) ==
    <<Transformation(NormalizeOnCols(on_cols), f, name, args, transform_type)>> \o units

\* FeaturePipeline.add_transformation: the registry after the call
add_transformation(units, on_cols, f, args, name, transform_type) ==
    IF AlreadyAdded(f, units) THEN units
    ELSE Append(units, Transformation(NormalizeOnCols(on_cols), f, name, args, transform_type))

----------------------------------------------------------------------------
(* The callers' inputs *)

\* the raw tables a caller passes.  R1 holds a repeated ID ("b"), whose two
\* rows differ, and the column Amount twice; R2 has other rows and a column
\* named like a derived feature (High).  R3 is the table of the threshold
\* example (integer ID with a repeated key), R4 that of the day-difference
\* example (2020-01-01 is day 18262, 2020-01-10 day 18271).  R5 has two
\* identity columns K1, K2: its first and third row hold the same pair, its
\* second row another pair with the same concatenation.  R6 holds a column
\* named INDEX.
RawTable(id) ==
    IF id = "R6" THEN
        DataFrame(<<"ID", "INDEX", "Amount">>,
                  << <<StrV("a"), StrV("b"), StrV("b")>>, <<IntV(10), IntV(20), IntV(30)>>, <<IntV(100), IntV(600), IntV(50)>> >>,
                  RangeIndex(3))
    ELSE
    IF id = "R5" THEN
        DataFrame(<<"K1", "K2", "Amount">>,
                  << <<StrV("a"), StrV("ab"), StrV("a")>>, <<StrV("bc"), StrV("c"), StrV("bc")>>, <<IntV(100), IntV(600), IntV(700)>> >>,
                  RangeIndex(3))
    ELSE
    IF id = "R3" THEN
        DataFrame(<<"ID", "Amount">>, << <<IntV(1), IntV(2), IntV(2)>>, <<IntV(100), IntV(600), IntV(600)>> >>, RangeIndex(3))
    ELSE IF id = "R4" THEN
        DataFrame(<<"Start", "End">>, << <<DateV(18262)>>, <<DateV(18271)>> >>, RangeIndex(1))
    ELSE IF id = "R1" THEN
        DataFrame(<<"ID", "Amount", "Start", "End", "Amount">>,
                  << <<StrV("a"), StrV("b"), StrV("b")>>,
                     <<IntV(100), IntV(600), IntV(50)>>,
                     <<DateV(18262), DateV(18270), NaN>>,
                     <<DateV(18271), DateV(18265), DateV(18300)>>,
                     <<IntV(1), IntV(2), IntV(3)>> >>,
                  RangeIndex(3))
    ELSE
        DataFrame(<<"ID", "Amount", "Start", "End", "High">>,
                  << <<StrV("b"), StrV("c")>>,
                     <<IntV(700), IntV(20)>>,
                     <<DateV(18262), DateV(18262)>>,
                     <<DateV(18263), DateV(18262)>>,
                     <<IntV(7), IntV(8)>> >>,
                  RangeIndex(2))

\* the arguments (df, index_cols, reapply_all) a caller passes: R1 with no
\* identity columns or with the string column ID, R1 with the integer column
\* Amount (whose join raises), R2 with no identity columns
ApplyInputs ==
    {[raw |-> "R1", index_cols |-> <<>>, reapply_all |-> FALSE], [raw |-> "R1", index_cols |-> <<>>, reapply_all |-> TRUE],
     [raw |-> "R1", index_cols |-> <<"ID">>, reapply_all |-> FALSE], [raw |-> "R1", index_cols |-> <<"ID">>, reapply_all |-> TRUE],
     [raw |-> "R1", index_cols |-> <<"Amount">>, reapply_all |-> FALSE], [raw |-> "R2", index_cols |-> <<>>, reapply_all |-> FALSE]}

\* the environments of opaque_f that make a difference to a call
EnvModes(units, inp) == IF inp.index_cols # <<"Amount">> /\ \E i \in 1..Len(units) : units[i].transformation_f = "opaque_f" THEN Modes ELSE {"ok"}

StrName(n) == [k |-> "str", v |-> <<n>>]

\* the registrations a caller makes (the demo's, and one on a derived column)
Registrations ==
    << [on_cols |-> [k |-> "str", v |-> "Amount"], f |-> "transforms_above_threshold",
        args |-> <<[k |-> "threshold", v |-> Scalar(IntV(500))]>>, name |-> StrName("High"), transform_type |-> "series"],
       [on_cols |-> [k |-> "tuple", v |-> <<"Start", "End">>], f |-> "transforms_days_between",
        args |-> <<>>, name |-> StrName("Dur"), transform_type |-> "series"],
       [on_cols |-> [k |-> "str", v |-> "High"], f |-> "opaque_f",
        args |-> <<>>, name |-> StrName("Rev"), transform_type |-> "series"] >>

\* units registered one at a time on a fresh engine: the two examples, a
\* threshold on a column of strings, an opaque function of a sub-table (its
\* parameter is not named df) with a list of output names and with a single
\* one, an opaque function with a fixed parameter named like the generated
\* key ser1, an opaque function of one column, the threshold function with
\* its fixed parameter under a name it does not declare, a unit whose
\* transform_type is neither 'series' nor 'dataframe', and a threshold on a
\* column named INDEX
Examples ==
    << [on_cols |-> [k |-> "str", v |-> "Amount"], f |-> "transforms_above_threshold",
        args |-> <<[k |-> "threshold", v |-> Scalar(IntV(500))]>>, name |-> StrName("HighAmount"), transform_type |-> "series"],
       [on_cols |-> [k |-> "tuple", v |-> <<"Start", "End">>], f |-> "transforms_days_between",
        args |-> <<>>, name |-> StrName("Duration"), transform_type |-> "series"],
       [on_cols |-> [k |-> "str", v |-> "ID"], f |-> "transforms_above_threshold",
        args |-> <<[k |-> "threshold", v |-> Scalar(IntV(1))]>>, name |-> StrName("HighID"), transform_type |-> "series"],
       [on_cols |-> [k |-> "tuple", v |-> <<"Start", "End">>], f |-> "opaque_f",
        args |-> <<>>, name |-> [k |-> "list", v |-> <<"S", "E">>], transform_type |-> "dataframe"],
       [on_cols |-> [k |-> "tuple", v |-> <<"Start", "End">>], f |-> "opaque_f",
        args |-> <<>>, name |-> StrName("P"), transform_type |-> "dataframe"],
       [on_cols |-> [k |-> "str", v |-> "Amount"], f |-> "opaque_f",
        args |-> <<[k |-> "ser1", v |-> Scalar(IntV(7))]>>, name |-> StrName("Fix"), transform_type |-> "series"],
       [on_cols |-> [k |-> "str", v |-> "Amount"], f |-> "opaque_f",
        args |-> <<>>, name |-> StrName("Back"), transform_type |-> "series"],
       [on_cols |-> [k |-> "str", v |-> "Amount"], f |-> "transforms_above_threshold",
        args |-> <<[k |-> "limit", v |-> Scalar(IntV(500))]>>, name |-> StrName("OverLimit"), transform_type |-> "series"],
       [on_cols |-> [k |-> "tuple", v |-> <<"Start", "End">>], f |-> "transforms_days_between",
        args |-> <<>>, name |-> StrName("Span"), transform_type |-> "frame"],
       [on_cols |-> [k |-> "str", v |-> "INDEX"], f |-> "transforms_above_threshold",
        args |-> <<[k |-> "threshold", v |-> Scalar(IntV(15))]>>, name |-> StrName("HighIndex"), transform_type |-> "series"] >>

\* the (df, index_cols) the examples are applied to
ExampleInputs ==
    {[raw |-> "R1", index_cols |-> <<>>], [raw |-> "R1", index_cols |-> <<"ID">>], [raw |-> "R2", index_cols |-> <<>>],
     [raw |-> "R2", index_cols |-> <<"ID">>], [raw |-> "R3", index_cols |-> <<>>], [raw |-> "R3", index_cols |-> <<"ID">>],
     [raw |-> "R4", index_cols |-> <<>>], [raw |-> "R5", index_cols |-> <<"K1", "K2">>], [raw |-> "R6", index_cols |-> <<>>],
     [raw |-> "R6", index_cols |-> <<"ID">>]}

ExampleModes(units) == IF \E i \in 1..Len(units) : units[i].transformation_f = "opaque_f" THEN Modes \cup {"type_error"} ELSE {"ok"}

----------------------------------------------------------------------------
(* The state machine *)

NoCall ==
    [op |-> "none", raw |-> "", index_cols |-> <<>>, reapply_all |-> FALSE, mode |-> "ok", exc |-> "", msg |-> "", stage |-> "", failed |-> 0,
     ret |-> None, trace |-> <<>>, log |-> <<>>, index_list |-> <<>>, pre_df |-> None, pre_units |-> <<>>, raw_after |-> None]

\* what is kept of the call before the latest one
Summary(call, id, index_cols, m) ==
    [ok |-> call.op = "apply" /\ call.exc = "",
     same |-> call.raw = id /\ call.index_cols = index_cols /\ call.mode = m, nunits |-> Len(call.pre_units)]

Init ==
    /\ transformations = <<>>
    /\ transformed_df = None
    /\ napply = 0
    /\ last = NoCall
    /\ prev = Summary(NoCall, "", <<>>, "ok")

AddTransformation(k) ==
    /\ Len(transformations) < MaxUnits
    /\ napply < MaxApply
    /\ transformations' = add_transformation(transformations, Registrations[k].on_cols, Registrations[k].f, Registrations[k].args, Registrations[k].name, Registrations[k].transform_type)
    /\ UNCHANGED <<transformed_df, napply, last, prev>>

\* a call of apply_transformations, made while opaque_f's environment is m
ApplyTransformations(id, index_cols, reapply_all, m) ==
    /\ napply < MaxApply
    /\ \E r \in {apply_transformations(transformations, transformed_df, RawTable(id), index_cols, reapply_all, m)} :
          /\ transformations' = r.units
          /\ transformed_df' = r.self_tdf
          /\ last' = [op |-> "apply", raw |-> id, index_cols |-> index_cols, reapply_all |-> reapply_all, mode |-> m,
                      exc |-> r.exc, msg |-> r.msg, stage |-> r.stage, failed |-> r.failed, ret |-> r.ret, trace |-> r.trace,
                      log |-> r.log, index_list |-> r.index_list,
                      pre_df |-> transformed_df, pre_units |-> transformations, raw_after |-> r.caller]
    /\ prev' = Summary(last, id, index_cols, m)
    /\ napply' = napply + 1

Next ==
    \/ \E k \in 1..Len(Registrations) : AddTransformation(k)
    \/ \E inp \in ApplyInputs : \E m \in EnvModes(transformations, inp) : ApplyTransformations(inp.raw, inp.index_cols, inp.reapply_all, m)

Spec == Init /\ [][Next]_vars

\* A fresh engine, units of Examples registered on it, and one call
RegisterExample(k) ==
    /\ Len(transformations) < MaxExampleUnits
    /\ napply = 0
    /\ transformations' = add_transformation(transformations, Examples[k].on_cols, Examples[k].f, Examples[k].args, Examples[k].name, Examples[k].transform_type)
    /\ UNCHANGED <<transformed_df, napply, last, prev>>

ApplyExample(id, index_cols, m) ==
    /\ napply = 0
    /\ transformations # <<>>
    /\ ApplyTransformations(id, index_cols, FALSE, m)

ExampleNext ==
    \/ \E k \in 1..Len(Examples) : RegisterExample(k)
    \/ \E inp \in ExampleInputs : \E m \in ExampleModes(transformations) : ApplyExample(inp.raw, inp.index_cols, m)

ExampleSpec == Init /\ [][ExampleNext]_vars

----------------------------------------------------------------------------
(* Properties *)

EventsOf(trace, ev) == SelectPos(trace, LAMBDA p : trace[p].ev = ev)

UnitsOf(trace, ev) == {trace[p].u : p \in Range(EventsOf(trace, ev))}

InvokedUnits(trace) == UnitsOf(trace, "invoke")

MergedUnits(trace) == UnitsOf(trace, "merge")

NInvokes(trace, u) == Cardinality({p \in 1..Len(trace) : trace[p].ev = "invoke" /\ trace[p].u = u})

\* the fragments merged by a call, in the order merged
MergedFrags(trace) == [k \in 1..Len(EventsOf(trace, "merge")) |-> trace[EventsOf(trace, "merge")[k]].frag]

\* units as they are right after registration
Unapplied(units) == [i \in 1..Len(units) |-> [units[i] EXCEPT !.transformation_applied = FALSE]]

\* a single full pass of a fresh engine holding the same units
FullPass(units, id, index_cols, m) == apply_transformations(Unapplied(units), None, RawTable(id), index_cols, FALSE, m)

\* columns from+1..from+n of table tbl, read at the row labels idx
Block(tbl, from, n, idx) == Reindex(TakeCols(tbl, [k \in 1..n |-> from + k]), idx)

\* the table tbl holds, left to right, the columns of table old (every cell
\* at its row label) and then the fragments frags
HoldsInOrder(tbl, old, frags) ==
    LET widths == [k \in 1..Len(frags) |-> Len(frags[k].columns)]
        before(k) == Len(old.columns) + Len(Flatten([j \in 1..(k-1) |-> frags[j].columns]))
    IN IF old.kind = "None" /\ frags = <<>> THEN tbl.kind = "None"
       ELSE /\ tbl.kind = "DataFrame"
            /\ tbl.columns = old.columns \o Flatten([k \in 1..Len(frags) |-> frags[k].columns])
            /\ old.kind # "None" => Block(tbl, 0, Len(old.columns), old.index) = old
            /\ \A k \in 1..Len(frags) : Block(tbl, before(k), widths[k], frags[k].index) = frags[k]

C2_ForceReapply ==
    (last.op = "apply" /\ last.reapply_all /\ prev.ok /\ prev.same /\ prev.nunits = Len(last.pre_units)) =>
        /\ last.exc = ""
        /\ \A i \in 1..Len(last.pre_units) : NInvokes(last.trace, i) >= 1
        /\ last.ret = FullPass(last.pre_units, last.raw, last.index_cols, last.mode).ret
        /\ transformed_df = last.ret

\* C3: when a call completed successfully and no unit was registered after it,
\* the next call with reapply_all = FALSE resolves and invokes nothing, leaves
\* the accumulated table and the units as they were, returns that table
\* whenever it returns, and does return when given the arguments of the
\* first call.
C3_IdempotenceWithSkip ==
    (last.op = "apply" /\ ~last.reapply_all /\ prev.ok /\ prev.nunits = Len(last.pre_units)) =>
        /\ UnitsOf(last.trace, "invoke") = {}
        /\ UnitsOf(last.trace, "resolve") = {}
        /\ transformed_df = last.pre_df
        /\ SubSeq(transformations, 1, Len(last.pre_units)) = last.pre_units
        /\ last.exc = "" => last.ret = last.pre_df
        /\ prev.same => last.exc = ""

C3_Witness ==
    /\ last.op = "apply" /\ ~last.reapply_all /\ prev.ok /\ prev.same /\ prev.nunits = Len(last.pre_units)
    /\ Len(last.pre_units) = 2
    /\ UnitsOf(last.trace, "skip") = {1, 2}
    /\ last.ret.kind = "DataFrame" /\ last.ret = transformed_df

\* C4: when a call fails at a unit (its argument resolution, its invocation or
\* the relabelling/merge of its fragment raises), the error reaches the
\* caller, no later unit is resolved or invoked, and the accumulated table
\* holds exactly the columns it held before the call followed by the
\* fragments merged before the failing unit.
C4_FailureRetention ==
    (last.op = "apply" /\ last.failed > 0) =>
        /\ last.exc # "" /\ last.ret = None
        /\ \A p \in 1..Len(last.trace) : last.trace[p].u <= last.failed
        /\ last.failed \notin MergedUnits(last.trace)
        /\ HoldsInOrder(transformed_df, last.pre_df, MergedFrags(last.trace))

C4_Witness ==
    /\ last.op = "apply" /\ last.failed = 2 /\ last.exc = "RuntimeError"
    /\ MergedUnits(last.trace) = {1} /\ 2 \in InvokedUnits(last.trace)
    /\ transformed_df.columns = <<"High">>

\* C5: when a call (reapply_all = FALSE) failed at some unit because of
\* opaque_f's environment and the environment is then repaired, calling again
\* with reapply_all = FALSE on the same raw table succeeds, invokes exactly the
\* units the failed call had not merged, and ends with the accumulated table
\* of the uninterrupted pass.
C5_ResumeAfterFailure ==
    LET resumed == apply_transformations(transformations, transformed_df, RawTable(last.raw), last.index_cols, FALSE, "ok")
        whole == apply_transformations(last.pre_units, last.pre_df, RawTable(last.raw), last.index_cols, FALSE, "ok")
    IN (last.op = "apply" /\ last.failed > 0 /\ ~last.reapply_all /\ last.mode # "ok" /\ Len(transformations) = Len(last.pre_units) /\ whole.exc = "") =>
        /\ resumed.exc = ""
        /\ InvokedUnits(resumed.trace) = InvokedUnits(whole.trace) \ MergedUnits(last.trace)
        /\ resumed.self_tdf = whole.self_tdf

\* the columns of the working copy of raw table id
RawColumns(id) == Range(DedupColumns(RawTable(id)).columns)

\* unit i of a call ran before trace position p: its fragment was merged
\* earlier in this call, or it was applied by an earlier call
RanBefore(call, i, p) == call.pre_units[i].transformation_applied \/ \E q \in 1..(p-1) : call.trace[q].ev = "merge" /\ call.trace[q].u = i

\* the output column named c of unit i as input x shows it: the fragment unit
\* i merged last before position p of this call, else the column the
\* accumulated table held under that name when the call started
ShowsOutputOf(call, i, c, p, x) ==
    LET ms == SelectPos(call.trace, LAMBDA q : q < p /\ call.trace[q].ev = "merge" /\ call.trace[q].u = i)
        frag == call.trace[ms[Len(ms)]].frag
    IN /\ x.kind = "Series"
       /\ IF ms # <<>> THEN Reindex(x, frag.index).data = frag.data
          ELSE call.pre_df.kind = "DataFrame" /\ Reindex(x, call.pre_df.index) = GetItem(call.pre_df, c)

\* C6: a unit whose input name (no column of the raw table) is the output name
\* of an earlier-registered unit that has run, in this call or an earlier
\* one, resolves that input without a missing-column error to that unit's
\* output column.
C6_CrossReference ==
    last.op = "apply" =>
        \A p \in 1..Len(last.trace) : last.trace[p].ev = "resolve" =>
            \A k \in 1..Len(last.pre_units[last.trace[p].u].on_col), i \in 1..(last.trace[p].u - 1) :
                LET c == last.pre_units[last.trace[p].u].on_col[k]
                IN (c \notin RawColumns(last.raw) /\ last.pre_units[i].name = [k |-> "str", v |-> <<c>>] /\ RanBefore(last, i, p)) =>
                       /\ last.trace[p].got # <<>>
                       /\ ShowsOutputOf(last, i, c, p, last.trace[p].got[k])

\* C7: at the end of every successful call that merged a fragment, the row
\* labels of the returned and of the accumulated table are the canonical
\* index_list of that call, to which every fragment was relabelled.
C7_RowIdentityAlignment ==
    (last.op = "apply" /\ last.exc = "" /\ MergedUnits(last.trace) # {}) =>
        /\ last.ret.index = last.index_list
        /\ transformed_df.index = last.index_list
        /\ \A k \in 1..Len(MergedFrags(last.trace)) : MergedFrags(last.trace)[k].index = last.index_list

\* the identity keys of the rows of raw table id, and the rows that are the
\* first of their key
IdentityKeys(id, index_cols) == [r \in 1..NRows(RawTable(id)) |-> StrV(JoinKey(DedupColumns(RawTable(id)), index_cols, r))]

FirstRows(id, index_cols) == SelectPos(IdentityKeys(id, index_cols), LAMBDA r : \A q \in 1..(r-1) : IdentityKeys(id, index_cols)[q] # IdentityKeys(id, index_cols)[r])

\* C8: with identity columns, every raw column a unit receives holds only the
\* first row of each identity key, and the returned table has exactly one row
\* per distinct key, in order of first occurrence.
C8_Deduplication ==
    (last.op = "apply" /\ last.index_cols # <<>> /\ last.exc = "") =>
        /\ \A p \in 1..Len(last.trace) : \A k \in 1..Len(last.trace[p].got) :
               LET c == last.pre_units[last.trace[p].u].on_col[k]
               IN c \in RawColumns(last.raw) =>
                      last.trace[p].got[k] = TakeRows(GetItem(SetIndex(DedupColumns(RawTable(last.raw)), IdentityKeys(last.raw, last.index_cols)), c), FirstRows(last.raw, last.index_cols))
        /\ last.ret.kind # "None" => last.ret.index = Unique(IdentityKeys(last.raw, last.index_cols))

Rank(ev) == CASE ev = "skip" -> 0 [] ev = "resolve" -> 1 [] ev = "invoke" -> 2 [] OTHER -> 3

\* C9: within a call the units are resolved, invoked and merged one at a time
\* in registration order: the events of a unit come after those of every
\* earlier unit, a unit is resolved only after every earlier unit that was
\* resolved has been merged, and registration appends at the end.
C9_ExecutionOrder ==
    last.op = "apply" =>
        /\ \A p, q \in 1..Len(last.trace) : p < q =>
               /\ last.trace[p].u <= last.trace[q].u
               /\ last.trace[p].u = last.trace[q].u => (Rank(last.trace[p].ev) < Rank(last.trace[q].ev) \/ (last.trace[p].ev = "invoke" /\ last.trace[q].ev = "invoke"))
               /\ (last.trace[p].ev = "resolve" /\ last.trace[q].ev = "resolve") => \E x \in (p+1)..(q-1) : last.trace[x].ev = "merge" /\ last.trace[x].u = last.trace[p].u
        /\ \A p \in 1..Len(last.trace) : last.trace[p].u \in 1..Len(last.pre_units)
        /\ Unapplied(SubSeq(transformations, 1, Len(last.pre_units))) = Unapplied(last.pre_units)

C9_Witness ==
    /\ last.op = "apply" /\ last.exc = ""
    /\ [p \in 1..Len(last.trace) |-> <<last.trace[p].ev, last.trace[p].u>>] = << <<"resolve", 1>>, <<"invoke", 1>>, <<"merge", 1>>, <<"resolve", 2>>, <<"invoke", 2>>, <<"merge", 2>> >>
    /\ last.pre_units[1].transformation_f # last.pre_units[2].transformation_f

\* C10: after a successful call, registering new units and calling again with
\* reapply_all = FALSE on the same raw table (same identity columns and
\* environment) skips every unit of the first call, invokes only the new
\* units (all of them when the call succeeds), keeps every column accumulated
\* before in name, value and position and appends the new fragments after them.
C10_IncrementalAddition ==
    (last.op = "apply" /\ ~last.reapply_all /\ prev.ok /\ prev.same /\ prev.nunits < Len(last.pre_units)) =>
        /\ InvokedUnits(last.trace) \subseteq (prev.nunits + 1)..Len(last.pre_units)
        /\ UnitsOf(last.trace, "skip") = 1..prev.nunits
        /\ last.exc = "" => MergedUnits(last.trace) = (prev.nunits + 1)..Len(last.pre_units)
        /\ HoldsInOrder(transformed_df, last.pre_df, MergedFrags(last.trace))

C10_Witness ==
    /\ last.op = "apply" /\ ~last.reapply_all /\ prev.ok /\ prev.same /\ prev.nunits = 1 /\ Len(last.pre_units) = 2
    /\ last.exc = "" /\ InvokedUnits(last.trace) = {2}
    /\ last.pre_df.columns = <<"High">> /\ transformed_df.columns = <<"High", "Rev">>

\* the column named c of the raw table of a call as the units are to see it:
\* the first column of that name, one row per identity key of the call
RawColumn(call, c) ==
    IF call.index_cols = <<>> THEN GetItem(DedupColumns(RawTable(call.raw)), c)
    ELSE TakeRows(GetItem(SetIndex(DedupColumns(RawTable(call.raw)), IdentityKeys(call.raw, call.index_cols)), c), FirstRows(call.raw, call.index_cols))

\* the columns named c of table tbl, in their order
ColumnsNamed(tbl, c) == TakeCols(tbl, SelectPos(tbl.columns, LAMBDA i : tbl.columns[i] = c))

\* name c is found in the raw table or in the accumulated table tbl
FoundIn(call, tbl, c) == c \in RawColumns(call.raw) \/ (tbl.kind # "None" /\ c \in Range(tbl.columns))

\* C11: for every unit a call reaches, each input name is resolved, in input
\* order, to the raw table's column of that name if there is one and else to
\* what the accumulated table holds under that name; when a name is in neither
\* the call ends with the error naming the first such column, the unit's
\* function is not invoked, its applied flag and the accumulated table are as
\* they were.
C11_ArgumentResolution ==
    last.op = "apply" =>
        \A e \in 1..Len(last.log) :
            LET entry == last.log[e]
                cols == last.pre_units[entry.u].on_col
                p == EventsOf(last.trace, "resolve")[e]
                got == last.trace[p].got
                missing == SelectPos(cols, LAMBDA k : ~FoundIn(last, entry.tdf, cols[k]))
            IN /\ last.trace[p].u = entry.u
               /\ missing = <<>> =>
                      /\ Len(got) = Len(cols)
                      /\ \A k \in 1..Len(cols) :
                             IF cols[k] \in RawColumns(last.raw) THEN got[k] = RawColumn(last, cols[k])
                             ELSE /\ got[k].data = ColumnsNamed(entry.tdf, cols[k]).data
                                  /\ got[k].index = entry.tdf.index
                                  /\ \A j \in 1..Len(got[k].columns) : got[k].columns[j] = cols[k]
               /\ missing # <<>> =>
                      /\ last.exc = "Exception" /\ last.stage = "get_args" /\ last.failed = entry.u
                      /\ last.msg = "Column " \o cols[missing[1]] \o " not found in input dataframes"
                      /\ e = Len(last.log) /\ p = Len(last.trace)
                      /\ transformations[entry.u].transformation_applied = last.pre_units[entry.u].transformation_applied
                      /\ transformed_df = entry.tdf

C11_Witness ==
    /\ last.op = "apply" /\ last.stage = "get_args" /\ last.failed = 2
    /\ last.msg = "Column High not found in input dataframes"
    /\ MergedUnits(last.trace) = {1} /\ transformed_df.columns = <<"Dur">>
    /\ ~transformations[2].transformation_applied

\* the names of the argument mapping args are the declared parameters of f
SignatureMatches(f, args) == {args[j].k : j \in 1..Len(args)} = Range(Params(f))

\* C12: a unit whose resolved argument names are the function's declared
\* parameters has its function invoked exactly once by Transformation.apply,
\* whether the function returns or raises (a TypeError raised in its body
\* included); only a mismatch of names and parameters leads to the positional
\* call, which is then the only invocation.
C12_InvocationDiscipline ==
    last.op = "apply" =>
        \A e \in 1..Len(last.log) :
            (last.stage # "get_args" \/ e < Len(last.log)) =>
                IF SignatureMatches(last.pre_units[last.log[e].u].transformation_f, last.log[e].args)
                THEN NInvokes(last.trace, last.log[e].u) = 1
                ELSE NInvokes(last.trace, last.log[e].u) <= 1

\* Transformation.apply of unit i was entered in the call and returned
Completed(call, i) == (\E e \in 1..Len(call.log) : call.log[e].u = i) /\ ~(call.failed = i /\ call.stage \in {"get_args", "apply"})

\* C13: a unit's applied flag is false from its registration until a call in
\* which Transformation.apply of the unit returns; an invocation that fails
\* (the function or the renaming raising) leaves the flag as it was, so a unit
\* that never completed is not skipped.
C13_AppliedFlag ==
    /\ \A i \in (Len(last.pre_units) + 1)..Len(transformations) : ~transformations[i].transformation_applied
    /\ \A i \in 1..Len(last.pre_units) :
           /\ transformations[i].transformation_applied = (last.pre_units[i].transformation_applied \/ Completed(last, i))
           /\ i \in UnitsOf(last.trace, "skip") => last.pre_units[i].transformation_applied

C13_Witness ==
    /\ last.op = "apply" /\ last.stage = "apply" /\ last.failed = 2 /\ last.exc = "RuntimeError"
    /\ NInvokes(last.trace, 2) = 1
    /\ transformations[1].transformation_applied /\ ~transformations[2].transformation_applied
    /\ prev.ok /\ prev.nunits = 1

\* C14: after every call, succeeding or failing, with or without identity
\* columns, the caller's raw table has the columns (duplicated names
\* included), rows, row order and row labels it had before the call.
C14_RawTableReadOnly == last.op = "apply" => last.raw_after = RawTable(last.raw)

C14_Witness ==
    /\ last.op = "apply" /\ last.raw = "R1" /\ last.index_cols = <<"ID">> /\ last.exc = ""
    /\ last.index_list = <<StrV("a"), StrV("b")>>
    /\ MergedUnits(last.trace) # {}
    /\ last.raw_after.columns = <<"ID", "Amount", "Start", "End", "Amount">> /\ NRows(last.raw_after) = 3

\* what the function of unit u returned in the call (None when it did not)
Returned(call, u) == LET es == SelectPos(call.log, LAMBDA e : call.log[e].u = u) IN IF es = <<>> THEN None ELSE call.log[es[Len(es)]].out

\* the fragment unit u merged in the call
FragmentOf(call, u) == call.trace[CHOOSE p \in 1..Len(call.trace) : call.trace[p].ev = "merge" /\ call.trace[p].u = u].frag

\* C15: the columns of a merged fragment are those the function returned, in
\* the same number and order, named after the unit's output name: a single
\* column gets the name N, several columns get the names of a list by
\* position, or the prefix N and "_" before each of their own names.
C15_OutputRenaming ==
    last.op = "apply" =>
        \A u \in MergedUnits(last.trace) :
            LET out == Returned(last, u)
                frag == FragmentOf(last, u)
                name == last.pre_units[u].name
            IN /\ frag.data = out.data
               /\ (out.kind = "Series" /\ name.k = "str") => frag.columns = name.v
               /\ (out.kind = "DataFrame" /\ name.k = "list") => frag.columns = name.v
               /\ (out.kind = "DataFrame" /\ name.k = "str") =>
                      frag.columns = [c \in 1..Len(out.columns) |-> name.v[1] \o "_" \o out.columns[c]]

C15_Witness ==
    /\ last.op = "apply" /\ last.exc = "" /\ last.raw = "R1" /\ last.mode = "ok"
    /\ Len(transformations) = 1 /\ transformations[1].name = StrName("P")
    /\ Returned(last, 1).columns = <<"Start", "End">>
    /\ transformed_df.columns = <<"P_Start", "P_End">>

\* the argument mapping get_args built for unit u in the call
ArgsOf(call, u) == call.log[CHOOSE e \in 1..Len(call.log) : call.log[e].u = u].args

\* the value bound to key k in the argument mapping args
ArgOf(args, k) == args[CHOOSE j \in 1..Len(args) : args[j].k = k].v

\* C16: the threshold unit of the example (Amount over 500 as HighAmount)
\* applied to the table ID=[1,2,2], Amount=[100,600,600] with identity
\* column ID completes and returns two rows with HighAmount=[0,1]; and every
\* fragment the threshold function produces from a column and a threshold
\* holds 1 exactly where the value is strictly greater than the threshold.
C16_ThresholdExample ==
    /\ (last.op = "apply" /\ last.raw = "R3" /\ last.index_cols = <<"ID">> /\ Len(last.pre_units) = 1
            /\ last.pre_units[1].name = StrName("HighAmount")) =>
           /\ last.exc = ""
           /\ last.ret = DataFrame(<<"HighAmount">>, << <<IntV(0), IntV(1)>> >>, last.index_list)
           /\ Len(last.index_list) = 2
    /\ last.op = "apply" =>
           \A u \in MergedUnits(last.trace) :
               (last.pre_units[u].transformation_f = "transforms_above_threshold" /\ SignatureMatches("transforms_above_threshold", ArgsOf(last, u))) =>
                   \A r \in 1..NRows(FragmentOf(last, u)) :
                       FragmentOf(last, u).data[1][r] = IF ArgOf(ArgsOf(last, u), "ser1").data[1][r].n > ArgOf(ArgsOf(last, u), "threshold").data[1][1].n THEN IntV(1) ELSE IntV(0)

\* C17: the day-difference unit of the example gives Duration=[9] for
\* Start=2020-01-01, End=2020-01-10; every fragment of the day-difference
\* function holds, on a row with both dates, End - Start in days when that is
\* positive and 0 otherwise, and no fragment holds a negative number.
C17_DayDifferenceExample ==
    /\ (last.op = "apply" /\ last.raw = "R4" /\ Len(last.pre_units) = 1 /\ last.pre_units[1].name = StrName("Duration")) =>
           /\ last.exc = ""
           /\ last.ret = DataFrame(<<"Duration">>, << <<IntV(9)>> >>, last.index_list)
    /\ last.op = "apply" =>
           \A u \in MergedUnits(last.trace) :
               last.pre_units[u].transformation_f = "transforms_days_between" =>
                   \A r \in 1..NRows(FragmentOf(last, u)) :
                       LET from == ArgOf(ArgsOf(last, u), "ser1").data[1][r]
                           to == ArgOf(ArgsOf(last, u), "ser2").data[1][r]
                           days == FragmentOf(last, u).data[1][r]
                       IN /\ (from.t = "date" /\ to.t = "date" /\ to.n >= from.n) => days = IntV(to.n - from.n)
                          /\ (from.t = "date" /\ to.t = "date" /\ to.n < from.n) => days = IntV(0)
                          /\ days.t = "int" => days.n >= 0

C17_Witness ==
    /\ last.op = "apply" /\ last.exc = "" /\ last.raw = "R1" /\ last.index_cols = <<>>
    /\ Len(transformations) = 1 /\ transformations[1].name = StrName("Duration")
    /\ transformed_df.data = << <<IntV(9), IntV(0), NaN>> >>

\* C18: no two columns of the accumulated feature table share a name, and
\* every input a unit resolves by name is a single column.
C18_UnambiguousColumnNames ==
    /\ ~HasDuplicates(transformed_df.columns)
    /\ \A p \in 1..Len(last.trace) : \A k \in 1..Len(last.trace[p].got) : last.trace[p].got[k].kind = "Series"

\* C19: in every step the registry keeps its units at their positions (it may
\* gain units at the end), every unit keeps its input names, function, output
\* name, fixed parameters and calling convention, and an applied flag that is
\* true stays true.
C19_UnitLifecycle ==
    [][/\ Len(transformations') >= Len(transformations)
       /\ \A i \in 1..Len(transformations) :
              /\ Unapplied(transformations')[i] = Unapplied(transformations)[i]
              /\ transformations[i].transformation_applied => transformations'[i].transformation_applied]_vars

C19_Witness ==
    /\ last.op = "apply" /\ last.reapply_all /\ last.stage = "apply" /\ last.failed = 2
    /\ NInvokes(last.trace, 2) = 1
    /\ last.pre_units[2].transformation_applied /\ transformations[2].transformation_applied
    /\ transformations[1].transformation_f # transformations[2].transformation_f

\* the keys get_args generates for unit t
GeneratedKeys(t) == IF t.transform_type = "series" THEN [i \in 1..Len(t.on_col) |-> "ser" \o ToString(i)] ELSE <<"df">>

\* C20: the argument mapping built for a unit starts with the generated keys
\* (ser1..serN in input order, or df), holds every fixed parameter of the unit
\* with its value and no other key; a generated key that no fixed parameter
\* names holds the resolved column (or the sub-table of the resolved columns);
\* the unit's stored fixed parameters are as registered.
C20_FixedParameterOverlay ==
    last.op = "apply" =>
        \A e \in 1..Len(last.log) :
            (last.stage # "get_args" \/ e < Len(last.log)) =>
                LET t == last.pre_units[last.log[e].u]
                    args == last.log[e].args
                    got == last.trace[EventsOf(last.trace, "resolve")[e]].got
                    gen == GeneratedKeys(t)
                    fixed == t.transformation_args
                IN /\ \A i \in 1..Len(gen) : args[i].k = gen[i]
                   /\ {args[j].k : j \in 1..Len(args)} = Range(gen) \cup {fixed[j].k : j \in 1..Len(fixed)}
                   /\ ~HasDuplicates([j \in 1..Len(args) |-> args[j].k])
                   /\ \A j \in 1..Len(fixed) : ArgOf(args, fixed[j].k) = fixed[j].v
                   /\ \A i \in 1..Len(gen) : (\A j \in 1..Len(fixed) : fixed[j].k # gen[i]) =>
                          IF t.transform_type = "series" THEN args[i].v = got[i]
                          ELSE args[i].v.columns = t.on_col /\ args[i].v.data = [c \in 1..Len(got) |-> got[c].data[1]]
                   /\ transformations[last.log[e].u].transformation_args = fixed

C20_Witness ==
    /\ last.op = "apply" /\ last.raw = "R1" /\ Len(last.log) = 1
    /\ last.pre_units[1].transformation_args = <<[k |-> "ser1", v |-> Scalar(IntV(7))]>>
    /\ last.trace[1].got[1].kind = "Series"
    /\ last.log[1].args = <<[k |-> "ser1", v |-> Scalar(IntV(7))]>>

\* the call got as far as unit u: the working table was built and no earlier
\* unit ended the call
Reached(call, u) == call.op = "apply" /\ call.stage # "prepare" /\ (call.failed = 0 \/ call.failed >= u)

\* C21: a unit whose calling convention is neither 'series' nor 'dataframe'
\* is accepted at registration (appended, flag false); every call that
\* reaches it ends at its get_args with an Exception ("Unknwon transform
\* type" when its input names are found), its function is not invoked, its
\* applied flag stays false, and the accumulated table is the one the
\* preceding units left.
C21_UnknownCallingConvention ==
    /\ \A k \in 1..Len(Examples) : Examples[k].transform_type \notin {"series", "dataframe"} =>
           LET added == add_transformation(transformations, Examples[k].on_cols, Examples[k].f, Examples[k].args, Examples[k].name, Examples[k].transform_type)
           IN /\ Len(added) = Len(transformations) + 1
              /\ added[Len(added)].transform_type = Examples[k].transform_type
              /\ ~added[Len(added)].transformation_applied
    /\ \A u \in 1..Len(transformations) : transformations[u].transform_type \notin {"series", "dataframe"} =>
           /\ ~transformations[u].transformation_applied
           /\ (u <= Len(last.pre_units) /\ Reached(last, u)) =>
                  /\ last.exc = "Exception" /\ last.failed = u /\ last.stage = "get_args" /\ last.ret = None
                  /\ (\A k \in 1..Len(last.pre_units[u].on_col) : FoundIn(last, last.log[Len(last.log)].tdf, last.pre_units[u].on_col[k])) =>
                         last.msg = "Unknwon transform type"
                  /\ NInvokes(last.trace, u) = 0
                  /\ last.log[Len(last.log)].u = u
                  /\ transformed_df = last.log[Len(last.log)].tdf
                  /\ HoldsInOrder(transformed_df, last.pre_df, MergedFrags(last.trace))

C21_Witness ==
    /\ last.op = "apply" /\ last.raw = "R4" /\ last.failed = 2 /\ last.msg = "Unknwon transform type"
    /\ transformations[1].name = StrName("Duration") /\ transformations[1].transformation_applied
    /\ transformations[2].transform_type = "frame" /\ ~transformations[2].transformation_applied
    /\ transformed_df = DataFrame(<<"Duration">>, << <<IntV(9)>> >>, RangeIndex(1))

\* the unit a registration reg is to create
UnitOf(reg) ==
    [on_col |-> IF reg.on_cols.k = "str" THEN <<reg.on_cols.v>> ELSE reg.on_cols.v, transformation_f |-> reg.f, name |-> reg.name,
     transform_type |-> reg.transform_type, transformation_args |-> reg.args, transformation_applied |-> FALSE]

\* C22: a step that is no apply_transformations call (an add_transformation)
\* leaves the accumulated table and the record of invocations as they were,
\* and either changes nothing (rejection) or leaves every existing unit as it
\* was and appends one unit at the end: that of the registration, with its
\* input names as a sequence (a single name as a one-element sequence) and
\* its applied flag false.
C22_RegistrationEffect ==
    [][napply' = napply =>
          /\ transformed_df' = transformed_df
          /\ last' = last /\ prev' = prev
          /\ \/ transformations' = transformations
             \/ /\ Len(transformations') = Len(transformations) + 1
                /\ SubSeq(transformations', 1, Len(transformations)) = transformations
                /\ \E k \in 1..Len(Registrations) : transformations'[Len(transformations')] = UnitOf(Registrations[k])
                /\ ~transformations'[Len(transformations')].transformation_applied
                /\ Len(transformations'[Len(transformations')].on_col) >= 1]_vars

C22_Witness ==
    /\ last.op = "apply" /\ last.exc = "" /\ Len(last.pre_units) = 1
    /\ Len(transformations) = 2
    /\ transformations[1] = [last.pre_units[1] EXCEPT !.transformation_applied = TRUE]
    /\ transformations[2].on_col = <<"High">> /\ ~transformations[2].transformation_applied
    /\ transformed_df = last.ret /\ transformed_df.columns = <<"High">>

\* C23: a unit whose applied flag is true has had the fragment of its latest
\* completed invocation merged: whenever Transformation.apply of a unit
\* returned in a call, the call merged that unit's fragment, and while any
\* unit is applied the engine holds an accumulated table.
C23_AppliedImpliesMerged ==
    /\ last.op = "apply" => \A i \in 1..Len(last.pre_units) : (transformations[i].transformation_applied /\ Completed(last, i)) => i \in MergedUnits(last.trace)
    /\ (\E i \in 1..Len(transformations) : transformations[i].transformation_applied) => transformed_df.kind = "DataFrame"

\* the values row r of raw table id holds in the identity columns
IdentityTuple(id, index_cols, r) == [k \in 1..Len(index_cols) |-> GetItem(DedupColumns(RawTable(id)), index_cols[k]).data[1][r]]

\* C24: with two or more identity columns, two raw rows get the same identity
\* key only if they hold equal values in every identity column, so the rows
\* that survive are one per distinct tuple of identity values.
C24_IdentityKeyInjective ==
    (last.op = "apply" /\ Len(last.index_cols) >= 2 /\ last.stage # "prepare") =>
        /\ \A r, q \in 1..NRows(RawTable(last.raw)) :
               IdentityKeys(last.raw, last.index_cols)[r] = IdentityKeys(last.raw, last.index_cols)[q] =>
                   IdentityTuple(last.raw, last.index_cols, r) = IdentityTuple(last.raw, last.index_cols, q)
        /\ Len(last.index_list) = Cardinality({IdentityTuple(last.raw, last.index_cols, r) : r \in 1..NRows(RawTable(last.raw))})

\* C25: with identity columns, the working table the units resolve against
\* has every column of the column-deduplicated raw table, and every input
\* name that is a raw column (one named INDEX included) is resolved to that
\* column's original values on the surviving rows.
C25_IdentityPreservesRawColumns ==
    (last.op = "apply" /\ last.index_cols # <<>> /\ last.stage # "prepare") =>
        /\ Prepare(RawTable(last.raw), last.index_cols).df.columns = DedupColumns(RawTable(last.raw)).columns
        /\ \A e \in 1..Len(last.log) :
               LET cols == last.pre_units[last.log[e].u].on_col
                   got == last.trace[EventsOf(last.trace, "resolve")[e]].got
               IN \A k \in 1..Len(cols) : cols[k] \in RawColumns(last.raw) =>
                      /\ Len(got) = Len(cols)
                      /\ got[k].kind = "Series" /\ got[k].data = RawColumn(last, cols[k]).data

====
